---- MODULE Spec2Model ----
(***************************************************************************)
(* SWire: a master/client messaging layer on top of an I2C bus             *)
(* (src/SWire.h, src/SWire.cpp).  Bytes are integers 0..255, a C string is *)
(* the sequence of its bytes before the terminating null.                  *)
(***************************************************************************)
EXTENDS Integers, Sequences, FiniteSets, TLC

\* ---------------------------------------------------------------- constants
\* Control characters (SWire.h)
ACK == 134
START == 130
END == 131
READ == 210
NO_DATA == 176
PING == 177

MAX_CLIENTS == 16
MAX_MSG_LEN == 16
MAX_MASTER_QUEUE_SIZE == 40
MAX_CLIENT_QUEUE_SIZE == 20

\* ------------------------------------------------------------------- bounds
\* payload bytes chosen freely after the first byte (the rest is padding)
MaxFree == 1

\* operations in one behaviour of the whole system, and of one client
MaxOps == 3
MaxClientOps == 3
MaxQueueOps == 5

\* calls of readPacket over which one byte stream is split
MaxPolls == 3

\* steps of one behaviour in which a client's handlers interrupt its
\* application
MaxSteps == 6

\* the clock: it advances by one of TickAmounts up to MaxTime
MaxTime == 101
TickAmounts == {101}

\* the clock of the polling behaviours: it advances by one of PollTicks for
\* at most PollSpan time units
PollSpan == 204
PollTicks == {50, 51}

\* bus addresses with a client device in the model, and the client under
\* test when one client is looked at alone
BusIds == {1, 5, 16}
TestIds == {5}

FirstBytes == {1, 2, 126}
BodyBytes == {1, 3, 127}
PadByte == 65

\* ---------------------------------------------------------------- byte ops
RECURSIVE XorN(_, _, _)
XorN(a, b, n) ==
    IF n = 0 THEN 0
    ELSE (((a % 2) + (b % 2)) % 2) + (2 * XorN(a \div 2, b \div 2, n - 1))

\* exclusive-or of two chars
XorTable == [a \in 0..255 |-> [b \in 0..255 |-> XorN(a, b, 8)]]
Xor(a, b) == XorTable[a][b]

RECURSIVE XorAll(_)
XorAll(s) == IF s = <<>> THEN 0 ELSE Xor(Head(s), XorAll(Tail(s)))

RECURSIVE Pow2(_)
Pow2(n) == IF n = 0 THEN 1 ELSE 2 * Pow2(n - 1)

RECURSIVE StrLen(_, _)
StrLen(arr, i) ==
    IF i > Len(arr) \/ arr[i] = 0 THEN i - 1 ELSE StrLen(arr, i + 1)

\* the C string held in a char array: its bytes before the first null
CStr(arr) == SubSeq(arr, 1, StrLen(arr, 1))

\* ------------------------------------------------------------ packet codec
\* readPacket's static variables; buf[i] of the code is buf[i + 1] here
FramerInit ==
    [in_packet |-> 0, index |-> 0, data_parity |-> 0,
     buf |-> [i \in 1..(MAX_MSG_LEN + 1) |-> 0]]

\* the frame is full once index reaches this value
FrameLimit == MAX_MSG_LEN

\* the parity test at the end of a frame
PassedParity_Mut(data_parity) == TRUE
PassedParity(data_parity) == (data_parity % 128) = 0

\* a START byte: a new frame begins, whatever the state was
FrameStart_Mut(fr) == [fr EXCEPT !.in_packet = 1, !.data_parity = START]
FrameStart(fr) ==
    [fr EXCEPT !.in_packet = 1, !.data_parity = START, !.index = 0]

\* buf[index] = value; a write with an index outside the array does not
\* change the array (what else it changes is not defined)
BufWrite(buf, index, value) ==
    IF index >= 0 /\ index <= MAX_MSG_LEN
    THEN [buf EXCEPT ![index + 1] = value]
    ELSE buf

\* One call of readPacket with the static state fr and the bytes rx waiting
\* in the receive buffer.  status 0: no new packet (buffer not written);
\* 1: valid packet in buffer; -1: packet in buffer failed the parity check.
\* writes collects the indexes of the call's writes into buf.
RECURSIVE readPacketFrom(_, _, _)
readPacketFrom(fr, rx, writes) ==
    IF rx = <<>>
    THEN [fr |-> fr, status |-> 0, written |-> FALSE, buffer |-> <<>>,
          rx |-> rx, writes |-> writes]
    ELSE
      LET rc == Head(rx) IN
      IF rc = START
      THEN readPacketFrom(FrameStart(fr), Tail(rx), writes)
      ELSE IF fr.in_packet = 1
      THEN
        LET parity == Xor(fr.data_parity, rc)
            buf1 == IF rc # END
                    THEN BufWrite(fr.buf, fr.index, rc)
                    ELSE fr.buf
            index1 == IF rc # END THEN fr.index + 1 ELSE fr.index
            writes1 == IF rc # END THEN writes \cup {fr.index} ELSE writes
        IN
        IF rc = END \/ index1 >= FrameLimit
        THEN
          LET index2 == index1 - 1
              buf2 == BufWrite(buf1, index2, 0)
          IN [fr |-> [in_packet |-> 0, index |-> 0, data_parity |-> 0,
                      buf |-> buf2],
              status |-> IF PassedParity(parity) THEN 1 ELSE -1,
              written |-> TRUE,
              buffer |-> CStr(buf2),
              rx |-> Tail(rx),
              writes |-> writes1 \cup {index2}]
        ELSE readPacketFrom([fr EXCEPT !.data_parity = parity, !.buf = buf1,
                                       !.index = index1], Tail(rx), writes1)
      ELSE readPacketFrom(fr, Tail(rx), writes)

readPacket(fr, rx) == readPacketFrom(fr, rx, {})

\* The parity byte sendPacket writes
ParityByte(message) == Xor(Xor(START, XorAll(message)), END)

\* The bytes sendPacket writes to the bus for a (null-terminated) message
sendPacket(message) ==
    IF Len(message) = 0
    THEN [ret |-> 0, bytes |-> <<>>]
    ELSE [ret |-> 1,
          bytes |-> <<START>> \o message \o <<ParityByte(message)>> \o <<END>>]

\* -------------------------------------------------------------------- state
VARIABLES
    cx,        \* codec round trip: a frame between sendPacket and readPacket
    qx,        \* the queue harness: a queue, its pushes and pops so far
    ax,        \* the client application: where it is in a call, what was sent
    clients,   \* the client devices, by bus address
    master,    \* the master device: its SWireMaster object and inbound queue
    bus,       \* which addresses answer on the bus, and how reads are padded
    now,       \* millis()
    op,        \* the last operation and what it returned
    nops,      \* operations so far
    cbLog      \* the last bus callbacks of the client under test

vars == <<cx, qx, ax, clients, master, bus, now, op, nops, cbLog>>

\* ------------------------------------------------------- message queue
\* stringQueue.h is not part of the sources at hand: a bounded FIFO of
\* owned strings with the operations of the design document (section 4.2).
stringQueueInit(capacity) == [cap |-> capacity, items |-> <<>>]

stringQueueIsEmpty(q) == q.items = <<>>

\* push: refused, the queue unchanged, when the queue is full
stringQueueAdd(q, msg) ==
    IF Len(q.items) < q.cap
    THEN [q |-> [q EXCEPT !.items = Append(q.items, msg)], ok |-> TRUE]
    ELSE [q |-> q, ok |-> FALSE]

\* pop: the oldest entry, or nothing (some FALSE) from an empty queue
stringQueueRemove(q) ==
    IF q.items = <<>>
    THEN [q |-> q, some |-> FALSE, msg |-> <<>>]
    ELSE [q |-> [q EXCEPT !.items = Tail(q.items)], some |-> TRUE,
          msg |-> Head(q.items)]

\* ------------------------------------------------------- client responder
\* The globals of one client device and its SWireClient object; heap is the
\* number of blocks the device has got from malloc and not yet freed
SWireClient_Mut(client_number) ==
    [num |-> client_number,
     currentCommand |-> NO_DATA,
     bufferAlocFailed |-> FALSE,
     heap |-> 0,
     fr |-> FramerInit,
     in_messages |-> stringQueueInit(MAX_MASTER_QUEUE_SIZE),
     out_messages |-> stringQueueInit(MAX_MASTER_QUEUE_SIZE)]
SWireClient(client_number) ==
    [num |-> client_number,
     currentCommand |-> NO_DATA,
     bufferAlocFailed |-> FALSE,
     heap |-> 0,
     fr |-> FramerInit,
     in_messages |-> stringQueueInit(MAX_CLIENT_QUEUE_SIZE),
     out_messages |-> stringQueueInit(MAX_CLIENT_QUEUE_SIZE)]

\* A fresh malloc block of MAX_MSG_LEN + 1 chars holds arbitrary bytes; mem
\* is that content.  After strcpy(buffer, s) the block holds s, a null, and
\* the old bytes behind it.
Block(mem, written, s) ==
    [i \in 1..(MAX_MSG_LEN + 1) |->
        IF written /\ i <= Len(s) THEN s[i]
        ELSE IF written /\ i = Len(s) + 1 THEN 0
        ELSE mem[i]]

\* a block whose old content is all nulls
ZeroMem == [i \in 1..(MAX_MSG_LEN + 1) |-> 0]

\* receiveEvent from the command byte on: currentCommand = buffer[1], then
\* the block is queued or freed
ReceiveCommand(c, fr, buffer) ==
    IF buffer[2] # PING /\ buffer[2] # READ /\ buffer[2] # NO_DATA
    THEN [c EXCEPT !.fr = fr, !.currentCommand = buffer[2],
                   !.in_messages = stringQueueAdd(@, CStr(buffer)).q,
                   !.heap = @ + 1]
    ELSE [c EXCEPT !.fr = fr, !.currentCommand = buffer[2]]

\* receiveEvent after readPacket(buffer) returned r; the result r.status is
\* not looked at
ReceivePacket(c, r, mem) ==
    ReceiveCommand(c, r.fr, Block(mem, r.written, r.buffer))

\* receiveEvent: the handler the bus calls with the bytes rx addressed to
\* this client; allocOk tells whether malloc returned a block, mem is the
\* old content of that block.
receiveEvent_Mut(c, rx, allocOk, mem) ==
    IF ~allocOk
    THEN c
    ELSE ReceivePacket(c, readPacket(c.fr, rx), mem)
receiveEvent(c, rx, allocOk, mem) ==
    IF ~allocOk
    THEN [c EXCEPT !.bufferAlocFailed = TRUE]
    ELSE ReceivePacket(c, readPacket(c.fr, rx), mem)

\* requestEvent: the handler the bus calls when the master reads from this
\* client; answer is what the handler writes to the bus.
requestEvent_Mut(c) ==
    IF c.currentCommand = NO_DATA
    THEN [c |-> c, answer |-> <<NO_DATA>>]
    ELSE IF c.currentCommand # READ
    THEN [c |-> c, answer |-> <<ACK>>]
    ELSE IF stringQueueIsEmpty(c.out_messages)
    THEN [c |-> c, answer |-> <<0>>]
    ELSE LET r == stringQueueRemove(c.out_messages) IN
         [c |-> [c EXCEPT !.out_messages = r.q, !.heap = @ - 1],
          answer |-> r.msg]
requestEvent_MutPeek(c) ==
    IF c.currentCommand = NO_DATA
    THEN [c |-> [c EXCEPT !.currentCommand = NO_DATA], answer |-> <<NO_DATA>>]
    ELSE IF c.currentCommand # READ
    THEN [c |-> [c EXCEPT !.currentCommand = NO_DATA], answer |-> <<ACK>>]
    ELSE IF stringQueueIsEmpty(c.out_messages)
    THEN [c |-> [c EXCEPT !.currentCommand = NO_DATA], answer |-> <<0>>]
    ELSE [c |-> [c EXCEPT !.currentCommand = NO_DATA],
          answer |-> Head(c.out_messages.items)]
requestEvent_MutStrip(c) ==
    IF c.currentCommand = NO_DATA
    THEN [c |-> [c EXCEPT !.currentCommand = NO_DATA], answer |-> <<NO_DATA>>]
    ELSE IF c.currentCommand # READ
    THEN [c |-> [c EXCEPT !.currentCommand = NO_DATA], answer |-> <<ACK>>]
    ELSE IF stringQueueIsEmpty(c.out_messages)
    THEN [c |-> [c EXCEPT !.currentCommand = NO_DATA], answer |-> <<0>>]
    ELSE LET r == stringQueueRemove(c.out_messages) IN
         [c |-> [c EXCEPT !.out_messages = r.q, !.heap = @ - 1,
                          !.currentCommand = NO_DATA],
          answer |-> Tail(r.msg)]
requestEvent(c) ==
    IF c.currentCommand = NO_DATA
    THEN [c |-> [c EXCEPT !.currentCommand = NO_DATA], answer |-> <<NO_DATA>>]
    ELSE IF c.currentCommand # READ
    THEN [c |-> [c EXCEPT !.currentCommand = NO_DATA], answer |-> <<ACK>>]
    ELSE IF stringQueueIsEmpty(c.out_messages)
    THEN [c |-> [c EXCEPT !.currentCommand = NO_DATA], answer |-> <<0>>]
    ELSE LET r == stringQueueRemove(c.out_messages) IN
         [c |-> [c EXCEPT !.out_messages = r.q, !.heap = @ - 1,
                          !.currentCommand = NO_DATA],
          answer |-> r.msg]

\* SWireClient::sendData(data)
ClientSendData(c, data, allocOk) ==
    IF ~allocOk
    THEN [c |-> c, ret |-> 0]
    ELSE [c |-> [c EXCEPT !.out_messages =
                     stringQueueAdd(@, <<c.num>> \o data).q,
                          !.heap = @ + 1],
          ret |-> 1]

\* SWireClient::getData(buffer); buffer is left alone when there is no data
ClientGetData(c) ==
    IF stringQueueIsEmpty(c.in_messages)
    THEN [c |-> c, ret |-> 0, written |-> FALSE, buffer |-> <<>>]
    ELSE LET r == stringQueueRemove(c.in_messages) IN
         [c |-> [c EXCEPT !.in_messages = r.q, !.heap = @ - 1],
          ret |-> 1, written |-> TRUE, buffer |-> Tail(r.msg)]

\* the second half of SWireClient::getData, from stringQueueRemove on; some
\* tells whether the queue held a message to remove
GetDataRemove(c) ==
    [c |-> [c EXCEPT !.in_messages = stringQueueRemove(@).q,
                     !.heap = IF stringQueueRemove(c.in_messages).some
                              THEN @ - 1 ELSE @],
     some |-> stringQueueRemove(c.in_messages).some,
     buffer |-> IF stringQueueRemove(c.in_messages).some
                THEN Tail(stringQueueRemove(c.in_messages).msg) ELSE <<>>]

\* ---------------------------------------------------------------- the bus
\* Wire: endTransmission hands the written bytes to the addressed client's
\* receive handler; nothing happens when no client has that address.  The
\* clients in failed get no block from malloc in their handler.
Transmit(devs, to, bytes, failed) ==
    IF to \in bus.present
    THEN [devs EXCEPT ![to] = receiveEvent(@, bytes, to \notin failed, ZeroMem)]
    ELSE devs

\* the bytes the master receives of an answer: at most quantity of them; a
\* padding bus fills a short answer up to quantity with 0xFF
BusRead(answer, quantity) ==
    IF Len(answer) >= quantity THEN SubSeq(answer, 1, quantity)
    ELSE IF bus.padded
    THEN answer \o [i \in 1..(quantity - Len(answer)) |-> 255]
    ELSE answer

Received(devs, rx) == [devs |-> devs, n |-> Len(rx), rx |-> rx]

RequestAnswered(devs, from, r, quantity) ==
    Received([devs EXCEPT ![from] = r.c], BusRead(r.answer, quantity))

\* Wire.requestFrom(address, quantity): the addressed client's request
\* handler runs and the master receives bytes of what it wrote; n is the
\* returned count, 0 when no client has that address.
RequestFrom(devs, from, quantity) ==
    IF from \notin bus.present
    THEN Received(devs, <<>>)
    ELSE RequestAnswered(devs, from, requestEvent(devs[from]), quantity)

\* (char)Wire.read(): the next received byte, -1 when there is none
WireRead(rx) == IF rx = <<>> THEN 255 ELSE Head(rx)
WireRest(rx) == IF rx = <<>> THEN rx ELSE Tail(rx)

\* sendPacket(message) followed by Wire.requestFrom(message[0], quantity)
Transaction(devs, message, quantity, failed) ==
    RequestFrom(Transmit(devs, message[1], sendPacket(message).bytes, failed),
                message[1], quantity)

\* --------------------------------------------------------- master controller
\* SWireMaster::SWireMaster()
SWireMaster ==
    [num_clients |-> 0,
     clients |-> [i \in 1..MAX_CLIENTS |-> 0],
     in_messages |-> stringQueueInit(MAX_MASTER_QUEUE_SIZE),
     lastTime |-> 0,
     heap |-> 0]

\* the last candidate identifyClients probes: for (i = 1; i < MAX_CLIENTS; i++)
LastProbed == MAX_CLIENTS - 1

\* identifyClients starts from an empty client table
IdentifyStart_Mut(m) == m
IdentifyStart(m) ==
    [m EXCEPT !.num_clients = 0, !.clients = [i \in 1..MAX_CLIENTS |-> 0]]

\* the loop of identifyClients from candidate i on; st holds the master
\* object m and the client devices devs
RECURSIVE IdentifyLoop(_, _, _)
RECURSIVE IdentifyAnswer(_, _, _, _)
IdentifyLoop(i, st, failed) ==
    IF i > LastProbed THEN st
    ELSE IdentifyAnswer(i, st.m, Transaction(st.devs, <<i, PING>>, 1, failed),
                        failed)

\* the body of the loop after Wire.requestFrom(i, 1) returned rq
IdentifyAnswer(i, m, rq, failed) ==
    IF rq.n # 0 /\ WireRead(rq.rx) = ACK
    THEN IdentifyLoop(i + 1,
                      [m |-> [m EXCEPT !.clients[m.num_clients + 1] = i,
                                       !.num_clients = @ + 1],
                       devs |-> rq.devs], failed)
    ELSE IdentifyLoop(i + 1, [m |-> m, devs |-> rq.devs], failed)

\* SWireMaster::identifyClients(); its return value is _num_clients
identifyClients(m, devs, failed) ==
    IdentifyLoop(1, [m |-> IdentifyStart(m), devs |-> devs], failed)

\* bytes scanMessages asks a client for: Wire.requestFrom(_clients[i], 8)
ScanRequest == 8

\* the read loop of scanMessages: message[idx] = rc; rc = Wire.read(); ...
RECURSIVE ScanCollect(_, _, _, _)
ScanCollect(idx, rc, rx, message) ==
    IF idx >= MAX_MSG_LEN THEN message
    ELSE IF WireRead(rx) = 255 THEN Append(message, rc)
    ELSE ScanCollect(idx + 1, WireRead(rx), WireRest(rx), Append(message, rc))

\* the loop of scanMessages from table entry i (0-based) on
RECURSIVE ScanLoop(_, _, _)
RECURSIVE ScanAnswer(_, _, _, _)
ScanLoop(i, st, failed) ==
    IF i >= st.m.num_clients THEN st
    ELSE ScanAnswer(i, st.m,
                    Transaction(st.devs, <<st.m.clients[i + 1], READ>>,
                                ScanRequest, failed),
                    failed)

\* the body of the loop after Wire.requestFrom(_clients[i], 8) returned rq
ScanAnswer(i, m, rq, failed) ==
    IF rq.n > 1 /\ WireRead(rq.rx) # 0 /\ WireRead(rq.rx) # ACK
                /\ WireRead(rq.rx) # NO_DATA
    THEN ScanLoop(i + 1,
                  [m |-> [m EXCEPT !.in_messages =
                            stringQueueAdd(@, ScanCollect(0, WireRead(rq.rx),
                                              WireRest(rq.rx), <<>>)).q,
                                   !.heap = @ + 1],
                   devs |-> rq.devs], failed)
    ELSE ScanLoop(i + 1, [m |-> m, devs |-> rq.devs], failed)

\* SWireMaster::scanMessages()
scanMessages(m, devs, failed) == ScanLoop(0, [m |-> m, devs |-> devs], failed)

\* the poll interval of getData: millis() - lastTime > 100
PollInterval == 100

\* millis() - lastTime in unsigned long arithmetic: the time elapsed, also
\* across a wrap of the clock; the model's clock never goes back
Elapsed_Mut(t, last) == t
Elapsed(t, last) == t - last

\* getData after the scan, if any: the oldest message of the inbound queue
GetDataPop(st, due) ==
    IF stringQueueIsEmpty(st.m.in_messages)
    THEN [m |-> st.m, devs |-> st.devs, scanned |-> due, ret |-> 0,
          written |-> FALSE, buffer |-> <<>>]
    ELSE [m |-> [st.m EXCEPT !.in_messages = stringQueueRemove(@).q,
                             !.heap = @ - 1],
          devs |-> st.devs, scanned |-> due,
          ret |-> Head(stringQueueRemove(st.m.in_messages).msg),
          written |-> TRUE,
          buffer |-> Tail(stringQueueRemove(st.m.in_messages).msg)]

\* SWireMaster::getData(buffer) at time t
MasterGetData(m, devs, t, failed) ==
    IF Elapsed(t, m.lastTime) > PollInterval
    THEN GetDataPop(scanMessages([m EXCEPT !.lastTime = t], devs, failed), TRUE)
    ELSE GetDataPop([m |-> m, devs |-> devs], FALSE)

\* sendData after Wire.requestFrom(client_id, 1) returned rq; new_message
\* is not freed
SendDataResult(m, rq) ==
    [m |-> [m EXCEPT !.heap = @ + 1], devs |-> rq.devs,
     ret |-> IF rq.n # 0 THEN 1 ELSE 0]

\* SWireMaster::sendData(client_id, data)
MasterSendData(m, devs, client_id, data, allocOk, failed) ==
    IF ~allocOk
    THEN [m |-> m, devs |-> devs, ret |-> 0]
    ELSE SendDataResult(m, Transaction(devs, <<client_id>> \o data, 1, failed))

\* ------------------------------------------------------------ model inputs
RECURSIVE Pad(_)
Pad(n) == IF n = 0 THEN <<>> ELSE <<PadByte>> \o Pad(n - 1)

\* byte strings of length 0..n over BodyBytes
RECURSIVE FreeSeqs(_)
FreeSeqs(n) ==
    IF n = 0 THEN {<<>>}
    ELSE FreeSeqs(n - 1) \cup
         {Append(s, b) : s \in {t \in FreeSeqs(n - 1) : Len(t) = n - 1},
                         b \in BodyBytes}

\* messages handed to sendPacket: a first byte, some free bytes, padding
Payloads ==
    {<<f>> \o s \o Pad(k) :
        f \in FirstBytes, s \in FreeSeqs(MaxFree), k \in 0..MAX_MSG_LEN}

CodecPayloads == {p \in Payloads : Len(p) <= MAX_MSG_LEN + 1}

\* data strings the applications send: "hi" and strings of the lengths at
\* which the protocol's limits lie
DataStrings == {<<104, 105>>, Pad(MAX_MSG_LEN - 1)}

\* old contents of a malloc block (the first bytes; nulls behind them)
GarbageHeads == {<<7, READ>>, <<7, 66>>}
Garbage ==
    {[i \in 1..(MAX_MSG_LEN + 1) |-> IF i <= Len(g) THEN g[i] ELSE 0] :
        g \in GarbageHeads}

\* one bit of one byte of a frame flipped
FlipAt(frame, pos, bit) == [frame EXCEPT ![pos] = Xor(@, Pow2(bit))]

\* what the bus may deliver to client c in one receive event: the frame of
\* a PING, of a READ, of a data message; the PING and the data frame with a
\* bit of the parity byte flipped; the first bytes of a PING frame, and the
\* rest of it
BaseFrames(c) ==
    [ping |-> sendPacket(<<c, PING>>).bytes,
     read |-> sendPacket(<<c, READ>>).bytes,
     data |-> sendPacket(<<c, 104, 105>>).bytes]
Deliveries ==
    [c \in BusIds |->
        LET f == BaseFrames(c) IN
        {f.ping, f.read, f.data,
         FlipAt(f.ping, Len(f.ping) - 1, 0), FlipAt(f.data, Len(f.data) - 1, 0),
         SubSeq(f.ping, 1, 2), SubSeq(f.ping, 3, Len(f.ping))}]

\* ------------------------------------------------------------ initial values
NoOp ==
    [name |-> "none", who |-> 0, arg |-> <<>>, ret |-> 0, buf |-> <<>>,
     status |-> 0, scanned |-> FALSE, failed |-> {}, allocOk |-> TRUE,
     again |-> FALSE, prevFailed |-> {}]

CodecStart ==
    [stage |-> "idle", payload |-> <<>>, wire |-> <<>>,
     flipped |-> FALSE, flipPos |-> 0, flipBit |-> 0,
     fr |-> FramerInit, status |-> 0, buffer |-> <<>>]

\* client c after k calls of sendData with a one-byte data string
AfterSends(c, k) ==
    [c EXCEPT !.out_messages.items = [j \in 1..k |-> <<c.num, PadByte>>],
              !.heap = k]

\* the client application between calls, nothing sent yet
AppStart ==
    [pc |-> "idle", message |-> <<>>, n |-> 0, accepted |-> <<>>,
     written |-> <<>>, removedFromEmpty |-> FALSE]

QueueStart ==
    [owner |-> "none", q |-> stringQueueInit(0), accepted |-> <<>>,
     popped |-> <<>>, n |-> 0, last |-> "none", wasFull |-> FALSE,
     wasEmpty |-> FALSE, ok |-> FALSE, before |-> <<>>]

SysStart ==
    /\ qx = QueueStart
    /\ ax = AppStart
    /\ clients = [i \in BusIds |-> SWireClient(i)]
    /\ master = SWireMaster
    /\ bus = [present |-> {}, padded |-> TRUE]
    /\ now = 0
    /\ op = NoOp
    /\ nops = 0
    /\ cbLog = <<>>

\* ------------------------------------------------------- codec round trip
CodecInit == cx = CodecStart /\ SysStart

\* sendPacket(p) puts its frame on the bus
CodecSend ==
    /\ cx.stage = "idle"
    /\ \E p \in CodecPayloads :
         cx' = [cx EXCEPT !.stage = "sent", !.payload = p,
                          !.wire = sendPacket(p).bytes]
    /\ UNCHANGED <<qx, ax, clients, master, bus, now, op, nops, cbLog>>

\* the bus flips one bit of a payload byte or of the parity byte
CodecFlip ==
    /\ cx.stage = "sent"
    /\ ~cx.flipped
    /\ \E pos \in 2..(Len(cx.wire) - 1), bit \in 0..7 :
         /\ FlipAt(cx.wire, pos, bit)[pos] \notin {START, END}
         /\ cx' = [cx EXCEPT !.wire = FlipAt(cx.wire, pos, bit),
                             !.flipped = TRUE, !.flipPos = pos, !.flipBit = bit]
    /\ UNCHANGED <<qx, ax, clients, master, bus, now, op, nops, cbLog>>

\* the receiver calls readPacket with the whole frame in its receive buffer
CodecRead ==
    /\ cx.stage = "sent"
    /\ LET r == readPacket(cx.fr, cx.wire) IN
       cx' = [cx EXCEPT !.stage = "read", !.fr = r.fr, !.status = r.status,
                        !.buffer = r.buffer]
    /\ UNCHANGED <<qx, ax, clients, master, bus, now, op, nops, cbLog>>

CodecNext == CodecSend \/ CodecFlip \/ CodecRead

SpecCodec == CodecInit /\ [][CodecNext]_vars

\* ------------------------------------------------- applications on a client
\* the application of client c calls sendData
AppSendData ==
    /\ nops < MaxOps
    /\ \E c \in bus.present, d \in DataStrings, allocOk \in BOOLEAN :
         LET r == ClientSendData(clients[c], d, allocOk) IN
         /\ clients' = [clients EXCEPT ![c] = r.c]
         /\ op' = [NoOp EXCEPT !.name = "cSendData", !.who = c, !.arg = d,
                               !.ret = r.ret, !.allocOk = allocOk]
    /\ nops' = nops + 1
    /\ UNCHANGED <<cx, qx, ax, master, bus, now, cbLog>>

\* the application of client c calls getData
AppGetData ==
    /\ nops < MaxOps
    /\ \E c \in bus.present :
         LET r == ClientGetData(clients[c]) IN
         /\ clients' = [clients EXCEPT ![c] = r.c]
         /\ op' = [NoOp EXCEPT !.name = "cGetData", !.who = c,
                               !.ret = r.ret, !.buf = r.buffer]
    /\ nops' = nops + 1
    /\ UNCHANGED <<cx, qx, ax, master, bus, now, cbLog>>

\* ------------------------------------------------ one client on the bus
Last3(s) == IF Len(s) > 3 THEN Tail(s) ELSE s

ClientInit ==
    /\ cx = CodecStart
    /\ qx = QueueStart
    /\ ax = AppStart
    /\ \E k \in {0, MAX_CLIENT_QUEUE_SIZE - 1} :
         clients = [i \in BusIds |->
                      IF i \in TestIds THEN AfterSends(SWireClient(i), k)
                      ELSE SWireClient(i)]
    /\ master = SWireMaster
    /\ bus = [present |-> TestIds, padded |-> TRUE]
    /\ now = 0
    /\ op = NoOp
    /\ nops = 0
    /\ cbLog = <<>>

\* the bus delivers bytes to the client: its receive handler runs
BusReceive ==
    /\ nops < MaxClientOps
    /\ \E c \in bus.present : \E rx \in Deliveries[c], allocOk \in BOOLEAN,
                                   mem \in Garbage :
         LET r == readPacket(clients[c].fr, rx) IN
         /\ clients' = [clients EXCEPT ![c] = receiveEvent(@, rx, allocOk, mem)]
         /\ op' = [NoOp EXCEPT !.name = "receiveEvent", !.who = c, !.arg = rx,
                               !.status = r.status, !.buf = r.buffer,
                               !.allocOk = allocOk]
         /\ cbLog' = Last3(Append(cbLog,
                [kind |-> "receive", valid |-> allocOk /\ r.status = 1,
                 payload |-> r.buffer, answer |-> <<>>]))
    /\ nops' = nops + 1
    /\ UNCHANGED <<cx, qx, ax, master, bus, now>>

\* the master reads from the client: its request handler runs
BusRequest ==
    /\ nops < MaxClientOps
    /\ \E c \in bus.present :
         LET r == requestEvent(clients[c]) IN
         /\ clients' = [clients EXCEPT ![c] = r.c]
         /\ op' = [NoOp EXCEPT !.name = "requestEvent", !.who = c,
                               !.buf = r.answer]
         /\ cbLog' = Last3(Append(cbLog,
                [kind |-> "request", valid |-> FALSE, payload |-> <<>>,
                 answer |-> r.answer]))
    /\ nops' = nops + 1
    /\ UNCHANGED <<cx, qx, ax, master, bus, now>>

ClientNext == BusReceive \/ BusRequest \/ AppSendData \/ AppGetData

SpecClient == ClientInit /\ [][ClientNext]_vars

\* ------------------------------------------- the master and its clients
\* the sets of clients on the bus a behaviour may start with
PresentChoices == {{1, 5}, {5, 16}}

\* the clients whose receive handler gets no block during one master call
FailChoices == {{}} \cup {{c} : c \in bus.present}

Init ==
    /\ cx = CodecStart
    /\ qx = QueueStart
    /\ ax = AppStart
    /\ clients = [i \in BusIds |-> SWireClient(i)]
    /\ master = SWireMaster
    /\ bus \in [present : PresentChoices, padded : BOOLEAN]
    /\ now = 0
    /\ op = NoOp
    /\ nops = 0
    /\ cbLog = <<>>

\* time passes
Tick ==
    /\ \E d \in TickAmounts :
         /\ now + d <= MaxTime
         /\ now' = now + d
    /\ op' = [NoOp EXCEPT !.name = "tick"]
    /\ UNCHANGED <<cx, qx, ax, clients, master, bus, nops, cbLog>>

\* the master application calls identifyClients
Identify ==
    /\ nops < MaxOps
    /\ \E failed \in FailChoices :
         LET r == identifyClients(master, clients, failed) IN
         /\ master' = r.m
         /\ clients' = r.devs
         /\ op' = [NoOp EXCEPT !.name = "identifyClients",
                               !.ret = r.m.num_clients,
                               !.failed = failed,
                               !.again = (op.name = "identifyClients"),
                               !.prevFailed = op.failed]
    /\ nops' = nops + 1
    /\ UNCHANGED <<cx, qx, ax, bus, now, cbLog>>

\* the master application calls getData
GetData ==
    /\ nops < MaxOps
    /\ \E failed \in FailChoices :
         LET r == MasterGetData(master, clients, now, failed) IN
         /\ master' = r.m
         /\ clients' = r.devs
         /\ op' = [NoOp EXCEPT !.name = "mGetData", !.ret = r.ret,
                               !.buf = r.buffer, !.scanned = r.scanned,
                               !.failed = failed]
    /\ nops' = nops + 1
    /\ UNCHANGED <<cx, qx, ax, bus, now, cbLog>>

\* the master application calls sendData
SendData ==
    /\ nops < MaxOps
    /\ \E c \in BusIds, d \in DataStrings, allocOk \in BOOLEAN :
       \E failed \in {{}, {c} \cap bus.present} :
         LET r == MasterSendData(master, clients, c, d, allocOk, failed) IN
         /\ master' = r.m
         /\ clients' = r.devs
         /\ op' = [NoOp EXCEPT !.name = "mSendData", !.who = c, !.arg = d,
                               !.ret = r.ret, !.allocOk = allocOk,
                               !.failed = failed]
    /\ nops' = nops + 1
    /\ UNCHANGED <<cx, qx, ax, bus, now, cbLog>>

Next == Tick \/ Identify \/ GetData \/ SendData \/ AppSendData \/ AppGetData

Spec == Init /\ [][Next]_vars

\* ------------------------------ handlers interrupting the application
\* The receive and request handlers run in interrupt context: each runs as
\* a whole, at any point of an application call.  An application call is
\* cut where it uses a queue: sendData before stringQueueAdd, getData
\* between stringQueueIsEmpty and stringQueueRemove.

\* the k-th data string the application sends: every message is different
TaggedData(k) == <<k>>

\* the outbound queue after k calls of sendData
AfterTaggedSends(c, k) ==
    [c EXCEPT !.out_messages.items = [j \in 1..k |-> <<c.num>> \o TaggedData(j)],
              !.heap = k]

\* frames the master sends to the client: a READ, a PING, a data message
MasterFrames(c) == {BaseFrames(c).read, BaseFrames(c).ping, BaseFrames(c).data}

InterleaveInit ==
    /\ cx = CodecStart
    /\ qx = QueueStart
    /\ \E k \in {0, MAX_CLIENT_QUEUE_SIZE - 1} :
         /\ clients = [i \in BusIds |->
                         IF i \in TestIds
                         THEN AfterTaggedSends(SWireClient(i), k)
                         ELSE SWireClient(i)]
         /\ ax = [AppStart EXCEPT
                    !.n = k,
                    !.accepted = [j \in 1..k |-> <<5>> \o TaggedData(j)]]
    /\ master = SWireMaster
    /\ bus = [present |-> TestIds, padded |-> TRUE]
    /\ now = 0
    /\ op = NoOp
    /\ nops = 0
    /\ cbLog = <<>>

\* sendData up to stringQueueAdd: the block is allocated and filled
AppSendBegin ==
    /\ nops < MaxSteps
    /\ ax.pc = "idle"
    /\ \E allocOk \in BOOLEAN :
         /\ ax' = IF allocOk
                  THEN [ax EXCEPT !.pc = "sendData_add", !.n = @ + 1,
                                  !.message = TaggedData(ax.n + 1)]
                  ELSE ax
         /\ op' = [NoOp EXCEPT !.name = "cSendData_begin", !.who = 5,
                               !.allocOk = allocOk]
    /\ nops' = nops + 1
    /\ UNCHANGED <<cx, qx, clients, master, bus, now, cbLog>>

\* sendData from stringQueueAdd on
AppSendAdd ==
    /\ nops < MaxSteps
    /\ ax.pc = "sendData_add"
    /\ clients' = [clients EXCEPT
                     ![5] = ClientSendData(@, ax.message, TRUE).c]
    /\ ax' = [ax EXCEPT
                !.pc = "idle", !.message = <<>>,
                !.accepted =
                    IF stringQueueAdd(clients[5].out_messages,
                                      <<5>> \o ax.message).ok
                    THEN Append(@, <<5>> \o ax.message) ELSE @]
    /\ op' = [NoOp EXCEPT !.name = "cSendData", !.who = 5,
                          !.arg = ax.message, !.ret = 1]
    /\ nops' = nops + 1
    /\ UNCHANGED <<cx, qx, master, bus, now, cbLog>>

\* getData up to and including stringQueueIsEmpty
AppGetCheck ==
    /\ nops < MaxSteps
    /\ ax.pc = "idle"
    /\ ax' = IF stringQueueIsEmpty(clients[5].in_messages) THEN ax
             ELSE [ax EXCEPT !.pc = "getData_remove"]
    /\ op' = [NoOp EXCEPT !.name = "cGetData_check", !.who = 5]
    /\ nops' = nops + 1
    /\ UNCHANGED <<cx, qx, clients, master, bus, now, cbLog>>

\* getData from stringQueueRemove on
AppGetRemove ==
    /\ nops < MaxSteps
    /\ ax.pc = "getData_remove"
    /\ clients' = [clients EXCEPT ![5] = GetDataRemove(@).c]
    /\ ax' = [ax EXCEPT !.pc = "idle",
                        !.removedFromEmpty =
                            @ \/ ~GetDataRemove(clients[5]).some]
    /\ op' = [NoOp EXCEPT !.name = "cGetData", !.who = 5, !.ret = 1,
                          !.buf = GetDataRemove(clients[5]).buffer]
    /\ nops' = nops + 1
    /\ UNCHANGED <<cx, qx, master, bus, now, cbLog>>

\* the receive handler interrupts
IsrReceive ==
    /\ nops < MaxSteps
    /\ \E rx \in MasterFrames(5), allocOk \in BOOLEAN :
         /\ clients' = [clients EXCEPT
                          ![5] = receiveEvent(@, rx, allocOk, ZeroMem)]
         /\ op' = [NoOp EXCEPT !.name = "receiveEvent", !.who = 5,
                               !.arg = rx, !.allocOk = allocOk]
    /\ nops' = nops + 1
    /\ UNCHANGED <<cx, qx, ax, master, bus, now, cbLog>>

\* the request handler interrupts; a message it removes from the outbound
\* queue is what it writes
IsrRequest ==
    /\ nops < MaxSteps
    /\ clients' = [clients EXCEPT ![5] = requestEvent(@).c]
    /\ ax' = IF clients[5].currentCommand = READ
                /\ ~stringQueueIsEmpty(clients[5].out_messages)
             THEN [ax EXCEPT !.written =
                                Append(@, requestEvent(clients[5]).answer)]
             ELSE ax
    /\ op' = [NoOp EXCEPT !.name = "requestEvent", !.who = 5,
                          !.buf = requestEvent(clients[5]).answer]
    /\ nops' = nops + 1
    /\ UNCHANGED <<cx, qx, master, bus, now, cbLog>>

InterleaveNext ==
    \/ AppSendBegin \/ AppSendAdd \/ AppGetCheck \/ AppGetRemove
    \/ IsrReceive \/ IsrRequest

SpecInterleave == InterleaveInit /\ [][InterleaveNext]_vars

\* ------------------------------------------- the framer over several calls
\* payloads whose frames are fed to the framer: 1, 2, and MAX_MSG_LEN - 2
\* to MAX_MSG_LEN bytes
FramerPayloads ==
    {<<5>> \o Pad(k) :
        k \in {0, 1, MAX_MSG_LEN - 3, MAX_MSG_LEN - 2, MAX_MSG_LEN - 1}}

\* bytes that reach the framer before the frame: nothing; a START; a frame
\* begun and not ended, short and as long as a frame can get; noise before
\* a START; a START directly followed by END; a complete corrupted frame
FramerPrefixes ==
    {<<>>, <<START>>, <<START, 1, 3>>, <<7, START, PadByte>>,
     <<START>> \o Pad(MAX_MSG_LEN - 1), <<START, END>>, <<START, 1, 3, END>>}

FramerStart ==
    [stage |-> "idle", prefix |-> <<>>, payload |-> <<>>, wire |-> <<>>,
     rest |-> <<>>, fr |-> FramerInit, results |-> <<>>, writes |-> {}]

FramerSpecInit == cx = FramerStart /\ SysStart

\* bytes arrive on the bus: a prefix and the frame sendPacket writes for p
FramerFeed ==
    /\ cx.stage = "idle"
    /\ \E x \in FramerPrefixes, p \in FramerPayloads :
         cx' = [cx EXCEPT !.stage = "fed", !.prefix = x, !.payload = p,
                          !.wire = sendPacket(p).bytes,
                          !.rest = x \o sendPacket(p).bytes]
    /\ UNCHANGED <<qx, ax, clients, master, bus, now, op, nops, cbLog>>

\* what the write buf[-1] = 0 does to the memory in front of buf is not
\* defined: it may hit nothing that matters, or anything
WriteOutcomes(writes) ==
    IF \E i \in writes : i < 0 \/ i > MAX_MSG_LEN
    THEN {"unharmed", "corrupted"}
    ELSE {"unharmed"}

\* one call of readPacket with the next n bytes of the stream in the receive
\* buffer; bytes the call leaves unread are gone with the next receive event
FramerPoll ==
    /\ cx.stage = "fed"
    /\ \E n \in 1..Len(cx.rest) :
         /\ Len(cx.results) + 1 < MaxPolls \/ n = Len(cx.rest)
         /\ LET r == readPacket(cx.fr, SubSeq(cx.rest, 1, n)) IN
            \E outcome \in WriteOutcomes(r.writes) :
              cx' = [cx EXCEPT
                       !.stage = IF outcome = "corrupted" THEN "ub"
                                 ELSE IF n = Len(cx.rest) THEN "done"
                                 ELSE "fed",
                       !.rest = SubSeq(cx.rest, n + 1, Len(cx.rest)),
                       !.fr = r.fr,
                       !.results = Append(@, [status |-> r.status,
                                              buffer |-> r.buffer]),
                       !.writes = @ \cup r.writes]
    /\ UNCHANGED <<qx, ax, clients, master, bus, now, op, nops, cbLog>>

FramerNext == FramerFeed \/ FramerPoll

SpecFramer == FramerSpecInit /\ [][FramerNext]_vars

\* --------------------------------------------------- the master polling
\* the clients the polling master has found, and the time at which its
\* inbound queue can hold MAX_MASTER_QUEUE_SIZE - 1 messages at the earliest
\* (a getData call that scans both clients adds two messages and pops one)
PollClients == {1, 5}
PollBase == (PollInterval + 1) * (MAX_MASTER_QUEUE_SIZE - 1)

\* the master's inbound queue after k getData calls, each of which scanned a
\* one-byte data message from both clients
AfterScans(k) ==
    [j \in 1..k |-> IF (k - j) % 2 = 0 THEN <<5, PadByte>> ELSE <<1, PadByte>>]

\* the master after identifyClients, freshly started or after
\* MAX_MASTER_QUEUE_SIZE - 1 such getData calls
PollInit ==
    /\ cx = CodecStart
    /\ qx = QueueStart
    /\ ax = AppStart
    /\ clients = [i \in BusIds |-> SWireClient(i)]
    /\ bus \in [present : {PollClients}, padded : BOOLEAN]
    /\ \E k \in {0, MAX_MASTER_QUEUE_SIZE - 1} :
         /\ now = (PollInterval + 1) * k
         /\ master =
              [identifyClients(SWireMaster, clients, {}).m
                 EXCEPT !.in_messages.items = AfterScans(k),
                        !.heap = k,
                        !.lastTime = (PollInterval + 1) * k]
    /\ op = NoOp
    /\ nops = 0
    /\ cbLog = <<>>

\* time passes
PollTick ==
    /\ \E d \in PollTicks :
         /\ now + d <= (IF now >= PollBase THEN PollBase ELSE 0) + PollSpan
         /\ now' = now + d
    /\ op' = [NoOp EXCEPT !.name = "tick"]
    /\ UNCHANGED <<cx, qx, ax, clients, master, bus, nops, cbLog>>

PollNext == PollTick \/ GetData \/ AppSendData

SpecPoll == PollInit /\ [][PollNext]_vars

\* ------------------------------------------------- the message queues alone
\* the queues the constructors create: the master's inbound queue, a
\* client's inbound and outbound queue
QueueOwners == {"master_in", "client_in", "client_out"}
OwnedQueue(owner) ==
    IF owner = "master_in" THEN SWireMaster.in_messages
    ELSE IF owner = "client_in" THEN SWireClient(5).in_messages
    ELSE SWireClient(5).out_messages

\* the k-th message pushed: every message is different
Tagged(k) == <<k, PadByte>>

\* queue q after k accepted pushes
AfterPushes(q, k) == [q EXCEPT !.items = [j \in 1..k |-> Tagged(j)]]

\* a queue as constructed, or one push short of full
QueueInit ==
    /\ cx = CodecStart
    /\ ax = AppStart
    /\ \E owner \in QueueOwners :
       \E k \in {0, OwnedQueue(owner).cap - 1} :
         qx = [QueueStart EXCEPT !.owner = owner,
                                 !.q = AfterPushes(OwnedQueue(owner), k),
                                 !.accepted = [j \in 1..k |-> Tagged(j)],
                                 !.n = k]
    /\ clients = [i \in BusIds |-> SWireClient(i)]
    /\ master = SWireMaster
    /\ bus = [present |-> {}, padded |-> TRUE]
    /\ now = 0
    /\ op = NoOp
    /\ nops = 0
    /\ cbLog = <<>>

\* a push
QueueAdd ==
    /\ nops < MaxQueueOps
    /\ LET r == stringQueueAdd(qx.q, Tagged(qx.n + 1)) IN
       qx' = [qx EXCEPT !.q = r.q,
                        !.accepted = IF r.ok THEN Append(@, Tagged(qx.n + 1))
                                     ELSE @,
                        !.n = @ + 1, !.last = "add",
                        !.wasFull = (Len(qx.q.items) >= qx.q.cap),
                        !.wasEmpty = (qx.q.items = <<>>),
                        !.ok = r.ok, !.before = qx.q.items]
    /\ nops' = nops + 1
    /\ UNCHANGED <<cx, ax, clients, master, bus, now, op, cbLog>>

\* a pop
QueueRemove ==
    /\ nops < MaxQueueOps
    /\ LET r == stringQueueRemove(qx.q) IN
       qx' = [qx EXCEPT !.q = r.q,
                        !.popped = IF r.some THEN Append(@, r.msg) ELSE @,
                        !.last = "remove",
                        !.wasFull = (Len(qx.q.items) >= qx.q.cap),
                        !.wasEmpty = (qx.q.items = <<>>),
                        !.ok = r.some, !.before = qx.q.items]
    /\ nops' = nops + 1
    /\ UNCHANGED <<cx, ax, clients, master, bus, now, op, cbLog>>

QueueNext == QueueAdd \/ QueueRemove

SpecQueue == QueueInit /\ [][QueueNext]_vars

\* ------------------------------------------------------------------ claims
\* C1: the frame sendPacket writes for a payload of 1..MAX_MSG_LEN bytes,
\* read by readPacket from its initial state, is reported valid (status 1)
\* and the output buffer is exactly the payload.
C1_RoundTrip ==
    (cx.stage = "read" /\ ~cx.flipped /\ Len(cx.payload) \in 1..MAX_MSG_LEN)
        => (cx.status = 1 /\ cx.buffer = cx.payload)

IsPingReceive(e) ==
    e.kind = "receive" /\ e.valid /\ Len(e.payload) >= 2 /\ e.payload[2] = PING
C3_SingleShot ==
    /\ \A i \in 1..Len(cbLog) :
         /\ (i >= 2 /\ IsPingReceive(cbLog[i - 1]) /\ cbLog[i].kind = "request")
               => cbLog[i].answer = <<ACK>>
         /\ (i >= 3 /\ IsPingReceive(cbLog[i - 2]) /\ cbLog[i - 1].kind = "request"
                /\ cbLog[i].kind = "request")
               => cbLog[i].answer = <<NO_DATA>>
    /\ (cbLog # <<>> /\ cbLog[Len(cbLog)].kind = "request")
          => \A c \in bus.present : clients[c].currentCommand = NO_DATA

C3_Witness ==
    /\ Len(cbLog) = 3
    /\ IsPingReceive(cbLog[1])
    /\ cbLog[2].kind = "request" /\ cbLog[2].answer = <<ACK>>
    /\ cbLog[3].kind = "request" /\ cbLog[3].answer = <<NO_DATA>>

\* C6: SWireClient::sendData returns 0 and leaves the outbound queue
\* unchanged when that queue already holds MAX_CLIENT_QUEUE_SIZE messages
\* (or no block can be allocated), and returns 1 only when the message was
\* appended.
C6_SendDataReportsFull ==
    [][\A c \in bus.present :
         (op'.name = "cSendData" /\ op'.who = c) =>
            /\ (Len(clients[c].out_messages.items) = MAX_CLIENT_QUEUE_SIZE
                  \/ ~op'.allocOk)
                 => (op'.ret = 0 /\ clients'[c].out_messages = clients[c].out_messages)
            /\ op'.ret = 1
                 => clients'[c].out_messages.items =
                       Append(clients[c].out_messages.items, <<c>> \o op'.arg)
      ]_vars

\* C7: a receive event whose frame fails the parity check (status -1) or
\* that holds no complete frame (status 0) leaves currentCommand and the
\* inbound queue as they were.
C7_InvalidDropped ==
    [][\A c \in bus.present :
         (op'.name = "receiveEvent" /\ op'.who = c /\ op'.status # 1) =>
            /\ clients'[c].currentCommand = clients[c].currentCommand
            /\ clients'[c].in_messages = clients[c].in_messages
      ]_vars

\* C4: when the master's inbound queue is empty and a client c of the
\* client table has called sendData(d) (its outbound queue is the first
\* non-empty one in table order), a master getData call that runs a scan
\* returns c and fills the caller's buffer with exactly d.
C4_ClientToMaster ==
    [][(/\ op'.name = "mGetData" /\ op'.scanned /\ op'.failed = {}
        /\ stringQueueIsEmpty(master.in_messages)) =>
          \A i \in 1..master.num_clients :
             (/\ clients[master.clients[i]].out_messages.items # <<>>
              /\ \A j \in 1..(i - 1) :
                    clients[master.clients[j]].out_messages.items = <<>>)
             => /\ op'.ret = master.clients[i]
                /\ op'.buf =
                     Tail(Head(clients[master.clients[i]].out_messages.items))
      ]_vars

\* C5: when the master calls sendData(c, d) for a client c on the bus whose
\* inbound queue is empty, and no allocation fails, client c's next getData
\* returns 1 and fills the caller's buffer with exactly d.
C5_MasterToClient ==
    [][(/\ op'.name = "mSendData" /\ op'.who \in bus.present
        /\ op'.allocOk /\ op'.failed = {}
        /\ stringQueueIsEmpty(clients[op'.who].in_messages)) =>
          /\ ClientGetData(clients'[op'.who]).ret = 1
          /\ ClientGetData(clients'[op'.who]).buffer = op'.arg
      ]_vars

\* C8: after identifyClients returns (no client's handler having run out of
\* memory), the client table holds exactly the identifiers in
\* 1..MAX_CLIENTS of the clients on the bus, in ascending order, and the
\* return value is their number; a client at MAX_CLIENTS is in the table.
C8_ProbesAll ==
    (op.name = "identifyClients" /\ op.failed = {}) =>
        /\ {master.clients[i] : i \in 1..master.num_clients}
              = bus.present \cap (1..MAX_CLIENTS)
        /\ \A i \in 1..(master.num_clients - 1) :
              master.clients[i] < master.clients[i + 1]
        /\ op.ret = Cardinality(bus.present \cap (1..MAX_CLIENTS))

C10_Capacity ==
    IF qx.owner = "master_in" THEN MAX_MASTER_QUEUE_SIZE
    ELSE MAX_CLIENT_QUEUE_SIZE
C10_QueueFifoBound ==
    qx.owner \in QueueOwners =>
        /\ qx.popped \o qx.q.items = qx.accepted
        /\ Len(qx.q.items) <= C10_Capacity
        /\ (qx.last = "add" /\ Len(qx.before) = C10_Capacity)
              => (~qx.ok /\ qx.q.items = qx.before)
        /\ (qx.last = "add" /\ Len(qx.before) < C10_Capacity)
              => (qx.ok /\ Len(qx.q.items) = Len(qx.before) + 1)
        /\ (qx.last = "remove" /\ qx.wasEmpty)
              => (~qx.ok /\ qx.q.items = <<>>)

C10_Witness ==
    /\ qx.owner = "client_out"
    /\ qx.last = "add" /\ Len(qx.before) = MAX_CLIENT_QUEUE_SIZE /\ ~qx.ok
    /\ Len(qx.popped) >= 1
    /\ Len(qx.accepted) > MAX_CLIENT_QUEUE_SIZE

\* C11: for a payload of MAX_MSG_LEN + 1 bytes sent by sendPacket and read
\* by readPacket, the delivered message is the first MAX_MSG_LEN bytes of
\* the payload, and the status is the parity test over START and exactly
\* those bytes.
C11_OversizedTruncated ==
    (cx.stage = "read" /\ ~cx.flipped /\ Len(cx.payload) = MAX_MSG_LEN + 1)
        => /\ cx.buffer = SubSeq(cx.payload, 1, MAX_MSG_LEN)
           /\ cx.status =
                IF PassedParity(Xor(START,
                                    XorAll(SubSeq(cx.payload, 1, MAX_MSG_LEN))))
                THEN 1 ELSE -1

\* C12: a getData call that scans does so more than the poll interval
\* after the previous scan (whose time lastTime holds), so at least 100
\* time units separate two scans; a getData call that does not scan leaves
\* every client as it was (nothing was sent on the bus), leaves the time of
\* the last scan, and only pops the oldest message of the inbound queue.
C12_ScanRateLimit ==
    [][op'.name = "mGetData" =>
         IF op'.scanned
         THEN /\ now - master.lastTime >= PollInterval
              /\ master'.lastTime = now
         ELSE /\ now - master.lastTime <= PollInterval
              /\ clients' = clients
              /\ master'.lastTime = master.lastTime
              /\ master'.num_clients = master.num_clients
              /\ master'.clients = master.clients
              /\ IF master.in_messages.items = <<>>
                 THEN op'.ret = 0 /\ master'.in_messages = master.in_messages
                 ELSE /\ master'.in_messages.items
                           = Tail(master.in_messages.items)
                      /\ <<op'.ret>> \o op'.buf
                           = Head(master.in_messages.items)
      ]_vars

C12_Witness ==
    /\ op.name = "mGetData" /\ ~op.scanned /\ op.ret # 0
    /\ master.lastTime = PollBase + PollInterval + 1
    /\ now - master.lastTime = PollInterval

\* C13: on every device the number of blocks allocated and not released
\* equals the number of messages in the device's queues.
QueuedOn(c) == Len(c.in_messages.items) + Len(c.out_messages.items)
C13_Ownership ==
    /\ \A c \in bus.present : clients[c].heap = QueuedOn(clients[c])
    /\ master.heap = Len(master.in_messages.items)

Whole(frame) ==
    [status |-> readPacket(FramerInit, frame).status,
     buffer |-> readPacket(FramerInit, frame).buffer]

Delivered(result) == result.status # 0

\* a byte prefix without END that leaves the framer inside a frame
ResyncPrefix(x) ==
    /\ x # <<>>
    /\ \A i \in 1..Len(x) : x[i] # END
    /\ readPacket(FramerInit, x).status = 0
    /\ readPacket(FramerInit, x).fr.in_packet = 1

\* C15: when a prefix without END that leaves the framer inside a frame is
\* followed by a complete frame, however the bytes are split over calls,
\* exactly one packet is delivered, with the status and the payload that
\* parsing the frame alone gives.
C15_Resync ==
    (cx.stage = "done" /\ ResyncPrefix(cx.prefix))
        => SelectSeq(cx.results, Delivered) = <<Whole(cx.wire)>>

C15_Witness ==
    /\ cx.stage = "done" /\ cx.prefix = <<START>> \o Pad(MAX_MSG_LEN - 1)
    /\ Len(cx.payload) = 2
    /\ cx.results = <<[status |-> 0, buffer |-> <<>>],
                      [status |-> 1, buffer |-> cx.payload]>>

\* C16: when the bytes of a frame are split over two or more calls, the
\* calls before the one that consumes the frame's last byte return 0, and
\* that call returns the status and the payload of a single call on the
\* whole frame.
C16_PartialFrames ==
    (cx.stage = "done" /\ cx.prefix = <<>> /\ Len(cx.results) >= 2)
        => /\ \A k \in 1..(Len(cx.results) - 1) : cx.results[k].status = 0
           /\ cx.results[Len(cx.results)] = Whole(cx.wire)

\* C18: every write of readPacket into buf uses an index in 0..MAX_MSG_LEN
C18_IndexInBounds ==
    \A i \in cx.writes : i >= 0 /\ i <= MAX_MSG_LEN

\* C17: a receive event whose buffer allocation fails sets the
\* allocation-failure flag and leaves currentCommand, the inbound queue and
\* the outbound queue as they were; and no operation clears the flag.
C17_AllocFailureSticky ==
    [][\A c \in bus.present :
         /\ clients[c].bufferAlocFailed => clients'[c].bufferAlocFailed
         /\ (op'.name = "receiveEvent" /\ op'.who = c /\ ~op'.allocOk) =>
               /\ clients'[c].bufferAlocFailed
               /\ clients'[c].currentCommand = clients[c].currentCommand
               /\ clients'[c].in_messages = clients[c].in_messages
               /\ clients'[c].out_messages = clients[c].out_messages
      ]_vars

C17_Witness ==
    /\ nops = MaxClientOps
    /\ op.name = "cGetData" /\ op.ret = 1
    /\ clients[5].bufferAlocFailed
    /\ clients[5].currentCommand # NO_DATA

\* the messages that left the outbound queues of the clients table[i..n]
\* between the client states before and after, in table order
RECURSIVE RemovedFrom(_, _, _, _, _)
RemovedFrom(i, n, table, before, after) ==
    IF i > n THEN <<>>
    ELSE (IF Len(after[table[i]].out_messages.items)
               < Len(before[table[i]].out_messages.items)
          THEN <<Head(before[table[i]].out_messages.items)>>
          ELSE <<>>)
         \o RemovedFrom(i + 1, n, table, before, after)

\* the master's inbound queue as the scan of a getData call left it, before
\* the call popped its result
QueueAfterScan(ret, buf, items) ==
    IF ret = 0 THEN items ELSE <<(<<ret>> \o buf)>> \o items

\* C19: in a getData call that scans, every message a client removed from
\* its outbound queue is appended to the master's inbound queue, in table
\* order, also when that queue was full or nearly full before the scan.
C19_NoLossOnRead ==
    [][(op'.name = "mGetData" /\ op'.scanned) =>
          QueueAfterScan(op'.ret, op'.buf, master'.in_messages.items)
            = master.in_messages.items
                \o RemovedFrom(1, master.num_clients, master.clients,
                               clients, clients')
      ]_vars

\* C20: however the handlers interrupt the application's calls, the
\* messages written in answer to READ requests are the first of the
\* messages sendData got accepted into the outbound queue, each once and in
\* the order of acceptance; and getData never removes from an empty queue.
C20_OrderedExactlyOnce ==
    /\ Len(ax.written) <= Len(ax.accepted)
    /\ ax.written = SubSeq(ax.accepted, 1, Len(ax.written))
    /\ \A i, j \in 1..Len(ax.written) :
          i # j => ax.written[i] # ax.written[j]
    /\ ~ax.removedFromEmpty

C20_Witness ==
    /\ ax.pc = "sendData_add"
    /\ op.name = "requestEvent"
    /\ Len(ax.written) = 2
    /\ ax.written = SubSeq(ax.accepted, 1, 2)

====
